---------------------------- MODULE Spec2Model ----------------------------
(***************************************************************************)
(* Model of fin-pathfinder: the cash-flow projector (utils/cash_flow.py,   *)
(* main.py generate_projection) and the Monte Carlo portfolio simulator    *)
(* (utils/calculations.py), with the allocation validator                  *)
(* (utils/validation.py).                                                  *)
(*                                                                         *)
(* Numbers.  Dates are proleptic Gregorian ordinals (date.toordinal()).    *)
(* Cash-flow amounts are integers in thousandths of a currency unit, so    *)
(* round(x, 2) is a real rounding to a multiple of 10.                     *)
(***************************************************************************)
EXTENDS Integers, Sequences, FiniteSets, TLC

VARIABLES
    \* ---- cash-flow projection (main.py generate_projection) ----
    data,            \* the ProjectionRequest
    pc,              \* position of the handler
    k,               \* transactions of data.revenues + data.expenses applied
    revenues_daily,  \* per-day array of revenues
    expenses_daily,  \* per-day array of expenses (negative amounts)
    lastCall,        \* the last apply_transaction call: arguments and effect
    response,        \* the ProjectionResponse, once built
    \* ---- portfolio simulation (calculations.py simulate_portfolio_growth) ----
    user_data,       \* the user_data dictionary
    sim_pc,          \* "running", "done" or "error" ("idle" elsewhere)
    sim,             \* index of the path being simulated (from 0)
    year,            \* next year of that path (from 0)
    portfolio_value, \* value of the path being simulated
    portfolio_paths, \* the matrix, portfolio_paths[sim + 1][year + 1]
    net_cashflow,    \* the net cashflow of the last year simulated
    draws,           \* calls of np.random.multivariate_normal made
    risk,            \* the result of calculate_depletion_risk
    sampled,         \* the portfolio_return sampled for each path and year
    \* ---- allocation validation (validation.py, schemas.py) ----
    allocation,      \* the allocation dictionary, a sequence of weights
    validation       \* "pending", "True", "ValidationError" or "ValueError"

cashFlowVars ==
    <<data, pc, k, revenues_daily, expenses_daily, lastCall, response>>

simVars ==
    <<user_data, sim_pc, sim, year, portfolio_value, portfolio_paths,
      net_cashflow, draws, risk, sampled>>

validationVars == <<allocation, validation>>

vars == <<cashFlowVars, simVars, validationVars>>

\* The parts of the state a specification does not use stay as they start.
CashFlowIdle ==
    /\ data = <<>>
    /\ pc = "idle"
    /\ k = 0
    /\ revenues_daily = <<>>
    /\ expenses_daily = <<>>
    /\ lastCall = <<>>
    /\ response = <<>>

SimIdle ==
    /\ user_data = <<>>
    /\ sim_pc = "idle"
    /\ sim = 0
    /\ year = 0
    /\ portfolio_value = <<>>
    /\ portfolio_paths = <<>>
    /\ net_cashflow = <<>>
    /\ draws = 0
    /\ risk = <<>>
    /\ sampled = <<>>

ValidationIdle ==
    /\ allocation = <<>>
    /\ validation = "idle"

-----------------------------------------------------------------------------
(* Calendar arithmetic of datetime.date and dateutil.relativedelta.        *)

Abs(x) == IF x < 0 THEN -x ELSE x

Min(a, b) == IF a <= b THEN a ELSE b

Max(a, b) == IF a >= b THEN a ELSE b

IsLeap(y) == (y % 4 = 0) /\ ((y % 100 # 0) \/ (y % 400 = 0))

DaysInMonth(y, m) ==
    IF m = 2 THEN (IF IsLeap(y) THEN 29 ELSE 28)
    ELSE IF m \in {4, 6, 9, 11} THEN 30 ELSE 31

RECURSIVE DaysBeforeMonth(_, _)
DaysBeforeMonth(y, m) ==
    IF m = 1 THEN 0 ELSE DaysBeforeMonth(y, m - 1) + DaysInMonth(y, m - 1)

DaysBeforeYear(y) ==
    LET p == y - 1 IN p * 365 + (p \div 4) - (p \div 100) + (p \div 400)

\* date(y, m, d).toordinal()
Ymd2Ord(y, m, d) == DaysBeforeYear(y) + DaysBeforeMonth(y, m) + d

\* date.fromordinal(n).year
YearOfOrdinal(ord) ==
    LET n0   == ord - 1
        n400 == n0 \div 146097
        r400 == n0 % 146097
        n100 == r400 \div 36524
        r100 == r400 % 36524
        n4   == r100 \div 1461
        r4   == r100 % 1461
        n1   == r4 \div 365
        y    == n400 * 400 + 1 + n100 * 100 + n4 * 4 + n1
    IN  IF n1 = 4 \/ n100 = 4 THEN y - 1 ELSE y

RECURSIVE MonthFrom(_, _, _)
MonthFrom(y, m, dayOfYear) ==
    IF dayOfYear <= DaysInMonth(y, m) THEN m
    ELSE MonthFrom(y, m + 1, dayOfYear - DaysInMonth(y, m))

\* date.fromordinal(n).month
MonthOfOrdinal(ord) ==
    LET y == YearOfOrdinal(ord) IN MonthFrom(y, 1, ord - DaysBeforeYear(y))

\* The dates the model meets: the years of the requests, and one more for
\* the date get_next_date steps to.  Their year and month are tabulated.
CalendarDays == Ymd2Ord(2023, 1, 1) .. Ymd2Ord(2026, 12, 31)

Calendar ==
    [ord \in CalendarDays |->
        [year |-> YearOfOrdinal(ord), month |-> MonthOfOrdinal(ord)]]

YearOf(ord) == Calendar[ord].year

MonthOf(ord) == Calendar[ord].month

\* date.fromordinal(n).day
DayOf(ord) ==
    LET y == YearOf(ord)
        m == MonthOf(ord)
    IN  ord - DaysBeforeYear(y) - DaysBeforeMonth(y, m)

\* d + relativedelta(months=n), 0 <= n <= 12: the day of the month is kept
\* where the target month has it, else it is the target month's last day.
AddMonths(ord, n) ==
    LET y  == YearOf(ord)
        m  == MonthOf(ord)
        d  == DayOf(ord)
        mm == m + n
        y2 == IF mm > 12 THEN y + 1 ELSE y
        m2 == IF mm > 12 THEN mm - 12 ELSE mm
    IN  Ymd2Ord(y2, m2, Min(DaysInMonth(y2, m2), d))

\* d + relativedelta(years=1)
AddYear(ord) ==
    LET y == YearOf(ord)
        m == MonthOf(ord)
        d == DayOf(ord)
    IN  Ymd2Ord(y + 1, m, Min(DaysInMonth(y + 1, m), d))

-----------------------------------------------------------------------------
(* models/cash_flow.py: the data model.                                    *)

\* Optional[date] = None (date ordinals start at 1)
None == 0

\* Optional[Frequency] = None
NoFrequency == "None"

TransactionTypes == {"one-time", "repeating"}

\* class Frequency
Frequency == {"daily", "weekly", "monthly", "quarterly", "annual"}

Periods == {"weekly", "monthly", "quarterly", "annual"}

\* class Transaction; frequency and end_date are Optional.
Transaction(name, type, frequency, start_date, end_date, amount) ==
    [name |-> name, type |-> type, frequency |-> frequency,
     start_date |-> start_date, end_date |-> end_date, amount |-> amount]

\* Transaction validators and Field(gt=0): what a constructed Transaction
\* satisfies.  A repeating transaction whose frequency is omitted keeps the
\* default None (validators do not run on defaults).
ValidTransaction(t) ==
    /\ t.amount > 0
    /\ t.type \in TransactionTypes
    /\ t.frequency \in Frequency \cup {NoFrequency}
    /\ (t.type = "one-time" => t.frequency = NoFrequency)
    /\ (t.end_date # None => t.end_date >= t.start_date)

\* class CashFlowEntry
CashFlowEntry(date, total_revenues, total_expenses, net_cash_flow) ==
    [date |-> date, total_revenues |-> total_revenues,
     total_expenses |-> total_expenses, net_cash_flow |-> net_cash_flow]

\* class AggregatedCashFlow
AggregatedCashFlow(period, start_date, end_date, total_revenues, total_expenses, net_cash_flow) ==
    [period |-> period, start_date |-> start_date, end_date |-> end_date,
     total_revenues |-> total_revenues, total_expenses |-> total_expenses,
     net_cash_flow |-> net_cash_flow]

\* round(x, 2) on thousandths: the nearest multiple of 10, a tie to the even
\* hundredth.
Round2(x) ==
    LET a  == Abs(x)
        q  == a \div 10
        r  == a % 10
        up == (r > 5) \/ (r = 5 /\ q % 2 = 1)
        v  == (IF up THEN q + 1 ELSE q) * 10
    IN  IF x < 0 THEN -v ELSE v

\* str.capitalize() on the period keyword
Capitalize(period) ==
    CASE period = "weekly"    -> "Weekly"
      [] period = "monthly"   -> "Monthly"
      [] period = "quarterly" -> "Quarterly"
      [] period = "annual"    -> "Annual"
      [] OTHER                -> period

-----------------------------------------------------------------------------
(* utils/cash_flow.py                                                      *)

\* get_next_date raises ValueError in its else branch.
SupportedFrequency(frequency) == frequency \in Frequency

\* the step with a month counted as 30 days
get_next_date_ThirtyDays(current_date, frequency) ==
    CASE frequency = "daily"     -> current_date + 1
      [] frequency = "weekly"    -> current_date + 7
      [] frequency = "monthly"   -> current_date + 30
      [] frequency = "quarterly" -> AddMonths(current_date, 3)
      [] frequency = "annual"    -> AddYear(current_date)

\* get_next_date, for a supported frequency
get_next_date(current_date, frequency) ==
    CASE frequency = "daily"     -> current_date + 1
      [] frequency = "weekly"    -> current_date + 7
      [] frequency = "monthly"   -> AddMonths(current_date, 1)
      [] frequency = "quarterly" -> AddMonths(current_date, 3)
      [] frequency = "annual"    -> AddYear(current_date)

\* date_to_index of generate_projection: (d - data.start_date).days
date_to_index(d, horizon_start) == d - horizon_start

\* the amount assigned to the day in place of added to it
AddAtOverwrite(cash_flow, idx, delta) ==
    IF 0 <= idx /\ idx < Len(cash_flow)
    THEN [cash_flow EXCEPT ![idx + 1] = delta]
    ELSE cash_flow

\* if 0 <= idx < len(cash_flow): cash_flow[idx] += amount * multiplier
AddAt(cash_flow, idx, delta) ==
    IF 0 <= idx /\ idx < Len(cash_flow)
    THEN [cash_flow EXCEPT ![idx + 1] = @ + delta]
    ELSE cash_flow

\* the loop with the test while current_date < effective_end
RECURSIVE RepeatLoopExclusive(_, _, _, _, _, _)
RepeatLoopExclusive(transaction, cash_flow, current_date, effective_end, horizon_start, multiplier) ==
    IF current_date < effective_end
    THEN LET cf == AddAt(cash_flow, date_to_index(current_date, horizon_start),
                         transaction.amount * multiplier)
         IN  IF SupportedFrequency(transaction.frequency) /\ Len(cf) >= 0
             THEN RepeatLoopExclusive(transaction, cf,
                             get_next_date(current_date, transaction.frequency),
                             effective_end, horizon_start, multiplier)
             ELSE [cash_flow |-> cf, raised |-> TRUE]
    ELSE [cash_flow |-> cash_flow, raised |-> FALSE]

\* the loop ended silently by an unsupported frequency
RECURSIVE RepeatLoopSilent(_, _, _, _, _, _)
RepeatLoopSilent(transaction, cash_flow, current_date, effective_end, horizon_start, multiplier) ==
    IF current_date <= effective_end
    THEN LET cf == AddAt(cash_flow, date_to_index(current_date, horizon_start),
                         transaction.amount * multiplier)
         IN  IF SupportedFrequency(transaction.frequency) /\ Len(cf) >= 0
             THEN RepeatLoopSilent(transaction, cf,
                             get_next_date(current_date, transaction.frequency),
                             effective_end, horizon_start, multiplier)
             ELSE [cash_flow |-> cf, raised |-> FALSE]
    ELSE [cash_flow |-> cash_flow, raised |-> FALSE]

\* The while loop of apply_transaction: the array after the loop and
\* whether get_next_date raised.  (Len(cf) >= 0 is always true: it makes
\* the array of this iteration be computed before the next one starts.)
RECURSIVE RepeatLoop(_, _, _, _, _, _)
RepeatLoop(transaction, cash_flow, current_date, effective_end, horizon_start, multiplier) ==
    IF current_date <= effective_end
    THEN LET cf == AddAt(cash_flow, date_to_index(current_date, horizon_start),
                         transaction.amount * multiplier)
         IN  IF SupportedFrequency(transaction.frequency) /\ Len(cf) >= 0
             THEN RepeatLoop(transaction, cf,
                             get_next_date(current_date, transaction.frequency),
                             effective_end, horizon_start, multiplier)
             ELSE [cash_flow |-> cf, raised |-> TRUE]
    ELSE [cash_flow |-> cash_flow, raised |-> FALSE]

effective_start(transaction, horizon_start) ==
    Max(transaction.start_date, horizon_start)

effective_end(transaction, horizon_end) ==
    Min(IF transaction.end_date # None THEN transaction.end_date
        ELSE horizon_end, horizon_end)

\* apply_transaction: the caller's array after the call, and whether the
\* call raised ValueError.
apply_transaction(transaction, cash_flow, horizon_start, horizon_end, multiplier) ==
    LET es == effective_start(transaction, horizon_start)
        ee == effective_end(transaction, horizon_end)
    IN  IF es > ee
        THEN [cash_flow |-> cash_flow, raised |-> FALSE]
        ELSE IF transaction.type = "one-time"
        THEN [cash_flow |-> AddAt(cash_flow, date_to_index(es, horizon_start),
                                  transaction.amount * multiplier),
              raised |-> FALSE]
        ELSE IF transaction.type = "repeating"
        THEN RepeatLoop(transaction, cash_flow, es, ee, horizon_start,
                        multiplier)
        ELSE [cash_flow |-> cash_flow, raised |-> FALSE]

\* the quarter without the - 1
QuarterOfMonthNumber(date) == MonthOf(date) \div 3 + 1

Quarter(date) == (MonthOf(date) - 1) \div 3 + 1

\* the weekly window taken as eight days
is_same_period_EightDays(current_date, period, period_start) ==
    CASE period = "weekly" ->
            period_start <= current_date /\ current_date <= period_start + 7
      [] period = "monthly" ->
            MonthOf(current_date) = MonthOf(period_start)
            /\ YearOf(current_date) = YearOf(period_start)
      [] period = "quarterly" ->
            Quarter(current_date) = Quarter(period_start)
            /\ YearOf(current_date) = YearOf(period_start)
      [] period = "annual" ->
            YearOf(current_date) = YearOf(period_start)
      [] OTHER -> FALSE

is_same_period(current_date, period, period_start) ==
    CASE period = "weekly" ->
            period_start <= current_date /\ current_date <= period_start + 6
      [] period = "monthly" ->
            MonthOf(current_date) = MonthOf(period_start)
            /\ YearOf(current_date) = YearOf(period_start)
      [] period = "quarterly" ->
            Quarter(current_date) = Quarter(period_start)
            /\ YearOf(current_date) = YearOf(period_start)
      [] period = "annual" ->
            YearOf(current_date) = YearOf(period_start)
      [] OTHER -> FALSE

\* The accumulators of aggregate_cash_flow before the first entry.
AggStart ==
    [aggregated |-> <<>>, temp_revenue |-> 0, temp_expense |-> 0,
     temp_net |-> 0, period_start |-> None, period_end |-> None]

\* aggregated.append(AggregatedCashFlow(...)) of the open period
Flush(acc, period) ==
    Append(acc.aggregated,
           AggregatedCashFlow(Capitalize(period), acc.period_start,
                              acc.period_end, Round2(acc.temp_revenue),
                              Round2(acc.temp_expense), Round2(acc.temp_net)))

\* One iteration of the for loop of aggregate_cash_flow.
AggStep(acc, entry, period) ==
    LET ps   == IF acc.period_start = None THEN entry.date
                ELSE acc.period_start
        a1   == [acc EXCEPT !.period_start = ps]
        a2   == IF ~is_same_period(entry.date, period, ps)
                THEN [a1 EXCEPT !.aggregated = Flush(a1, period),
                                !.temp_revenue = 0, !.temp_expense = 0,
                                !.temp_net = 0, !.period_start = entry.date]
                ELSE a1
    IN  [a2 EXCEPT !.temp_revenue = @ + entry.total_revenues,
                   !.temp_expense = @ + entry.total_expenses,
                   !.temp_net = @ + entry.net_cash_flow,
                   !.period_end = entry.date]

\* for entry in daily_entries[lo..hi]: the iterations in order.  The range
\* is halved and the first half's accumulators are computed before the
\* second half is entered, so the evaluation nests logarithmically deep.
RECURSIVE AggLoop(_, _, _, _, _)
AggLoop(daily_entries, lo, hi, period, acc) ==
    IF lo > hi THEN acc
    ELSE IF lo = hi THEN AggStep(acc, daily_entries[lo], period)
    ELSE LET mid  == (lo + hi) \div 2
             left == AggLoop(daily_entries, lo, mid, period, acc)
         IN  IF left.period_end # None
             THEN AggLoop(daily_entries, mid + 1, hi, period, left)
             ELSE left

\* the period open at the end of the input left unflushed
FinalFlushMissing(acc, period) == acc.aggregated

\* The flush after the loop: if period_start is not None.
FinalFlush(acc, period) ==
    IF acc.period_start # None THEN Flush(acc, period) ELSE acc.aggregated

\* aggregate_cash_flow, for a period of Periods (any other raises).
aggregate_cash_flow(daily_entries, period) ==
    FinalFlush(AggLoop(daily_entries, 1, Len(daily_entries), period, AggStart),
               period)

-----------------------------------------------------------------------------
(* main.py generate_projection: POST /projection/                          *)

\* data.revenues + data.expenses
AllTransactions(d) == d.revenues \o d.expenses

\* transaction in data.revenues (model equality: field for field)
InRevenues(transaction, d) ==
    \E j \in 1..Len(d.revenues) : d.revenues[j] = transaction

\* multiplier = 1 if transaction in data.revenues else -1
Multiplier(transaction, d) == IF InRevenues(transaction, d) THEN 1 ELSE -1

\* the count without the + 1
TotalDaysExclusive(d) == d.end_date - d.start_date

total_days(d) == (d.end_date - d.start_date) + 1

Zeros(n) == [i \in 1..n |-> 0]

\* daily_entries = [CashFlowEntry(...) for i in range(total_days)]
DailyEntries(d, rev, exp) ==
    [i \in 1..total_days(d) |->
        CashFlowEntry(d.start_date + (i - 1),
                      Round2(rev[i]),
                      Round2(Abs(exp[i])),
                      Round2(rev[i] + exp[i]))]

\* ProjectionResponse(daily=..., weekly=..., ...)
ProjectionResponse(daily_entries) ==
    [daily     |-> daily_entries,
     weekly    |-> aggregate_cash_flow(daily_entries, "weekly"),
     monthly   |-> aggregate_cash_flow(daily_entries, "monthly"),
     quarterly |-> aggregate_cash_flow(daily_entries, "quarterly"),
     annual    |-> aggregate_cash_flow(daily_entries, "annual")]

NoResponse ==
    [daily |-> <<>>, weekly |-> <<>>, monthly |-> <<>>, quarterly |-> <<>>,
     annual |-> <<>>]

NoCall ==
    [called |-> FALSE, transaction |-> Transaction("", "one-time", NoFrequency, 1, None, 1),
     multiplier |-> 1, before |-> <<>>, after |-> <<>>, raised |-> FALSE]

\* the test with >= in place of >
InvalidHorizonInclusive(d) == d.start_date >= d.end_date

\* if data.start_date > data.end_date
InvalidHorizon(d) == d.start_date > d.end_date

\* if data.start_date > data.end_date: raise HTTPException(400); else the
\* two per-day arrays are allocated.
Begin ==
    /\ pc = "start"
    /\ IF InvalidHorizon(data)
       THEN /\ pc' = "error"
            /\ UNCHANGED <<revenues_daily, expenses_daily>>
       ELSE /\ pc' = "applying"
            /\ revenues_daily' = Zeros(total_days(data))
            /\ expenses_daily' = Zeros(total_days(data))
    /\ UNCHANGED <<data, k, lastCall, response, simVars, validationVars>>

\* One iteration of: for transaction in data.revenues + data.expenses
ApplyNext ==
    /\ pc = "applying"
    /\ k < Len(AllTransactions(data))
    /\ LET transaction == AllTransactions(data)[k + 1]
           multiplier  == Multiplier(transaction, data)
           target      == IF multiplier = 1 THEN revenues_daily
                          ELSE expenses_daily
           r           == apply_transaction(transaction, target,
                                            data.start_date, data.end_date,
                                            multiplier)
       IN  /\ revenues_daily' = IF multiplier = 1 THEN r.cash_flow
                                ELSE revenues_daily
           /\ expenses_daily' = IF multiplier = 1 THEN expenses_daily
                                ELSE r.cash_flow
           /\ lastCall' = [called |-> TRUE, transaction |-> transaction,
                           multiplier |-> multiplier, before |-> target,
                           after |-> r.cash_flow, raised |-> r.raised]
           /\ pc' = IF r.raised THEN "error" ELSE "applying"
    /\ k' = k + 1
    /\ UNCHANGED <<data, response, simVars, validationVars>>

\* After the loop: the daily entries and the four aggregations.
Respond ==
    /\ pc = "applying"
    /\ k = Len(AllTransactions(data))
    /\ response' = ProjectionResponse(
                       DailyEntries(data, revenues_daily, expenses_daily))
    /\ pc' = "done"
    /\ UNCHANGED <<data, k, revenues_daily, expenses_daily, lastCall,
                   simVars, validationVars>>

-----------------------------------------------------------------------------
(* Requests of the cash-flow specification.                                *)

\* At most MaxTransactions transactions in one request.
MaxTransactions == 2

\* A request over a full year or longer carries at most one transaction.
FullYear == <<Ymd2Ord(2024, 1, 1), Ymd2Ord(2024, 12, 31)>>

\* from a leap day to the day after the next end of February
LeapDayToNextMarch == <<Ymd2Ord(2024, 2, 29), Ymd2Ord(2025, 3, 1)>>

\* Horizons: two months over a leap day and a quarter end; the leap-year
\* month of the tests; a year end; a single day; a full leap year; a leap
\* day to the next March; and one with end before start.
Horizons ==
    { <<Ymd2Ord(2024, 1, 31), Ymd2Ord(2024, 4, 2)>>,
      <<Ymd2Ord(2024, 2, 1), Ymd2Ord(2024, 3, 1)>>,
      <<Ymd2Ord(2023, 12, 25), Ymd2Ord(2024, 1, 7)>>,
      <<Ymd2Ord(2024, 2, 29), Ymd2Ord(2024, 2, 29)>>,
      FullYear,
      LeapDayToNextMarch,
      <<Ymd2Ord(2024, 3, 1), Ymd2Ord(2024, 2, 1)>> }

\* Transactions (amounts in thousandths).
TransactionPool ==
    { Transaction("leap", "one-time", NoFrequency,
                  Ymd2Ord(2024, 2, 29), None, 1000000),
      Transaction("car", "one-time", NoFrequency,
                  Ymd2Ord(2024, 1, 15), None, 250004),
      Transaction("fee", "one-time", NoFrequency,
                  Ymd2Ord(2024, 1, 31), Ymd2Ord(2024, 4, 2), 30000),
      Transaction("rent", "repeating", "monthly",
                  Ymd2Ord(2024, 1, 31), Ymd2Ord(2024, 4, 2), 2000000),
      Transaction("gym", "repeating", "weekly",
                  Ymd2Ord(2024, 1, 1), None, 45000),
      Transaction("coffee", "repeating", "daily",
                  Ymd2Ord(2024, 2, 1), Ymd2Ord(2024, 3, 1), 3004),
      Transaction("bad", "repeating", NoFrequency,
                  Ymd2Ord(2024, 1, 31), Ymd2Ord(2024, 2, 15), 100000),
      Transaction("tax", "repeating", "quarterly",
                  Ymd2Ord(2024, 1, 1), Ymd2Ord(2024, 12, 31), 750000),
      Transaction("bonus", "repeating", "annual",
                  Ymd2Ord(2023, 12, 25), Ymd2Ord(2024, 1, 7), 900000),
      Transaction("insurance", "repeating", "annual",
                  Ymd2Ord(2024, 2, 29), None, 1200000) }

\* Sequences of at most n transactions of the pool.
TransactionLists(n) == UNION { [1..m -> TransactionPool] : m \in 0..n }

\* The requests of a horizon with at most n transactions in all.
RequestsOver(h, n) ==
    UNION { { [revenues |-> rv, expenses |-> ex,
               start_date |-> h[1], end_date |-> h[2]] :
                ex \in TransactionLists(n - Len(rv)) } :
            rv \in TransactionLists(n) }

Requests ==
    UNION { RequestsOver(h, IF h \in {FullYear, LeapDayToNextMarch}
                            THEN Min(1, MaxTransactions)
                            ELSE MaxTransactions) : h \in Horizons }

InitCashFlow ==
    /\ data \in Requests
    /\ \A j \in 1..Len(AllTransactions(data)) :
            ValidTransaction(AllTransactions(data)[j])
    /\ pc = "start"
    /\ k = 0
    /\ revenues_daily = <<>>
    /\ expenses_daily = <<>>
    /\ lastCall = NoCall
    /\ response = NoResponse
    /\ SimIdle
    /\ ValidationIdle

NextCashFlow == Begin \/ ApplyNext \/ Respond

SpecCashFlow == InitCashFlow /\ [][NextCashFlow]_vars

-----------------------------------------------------------------------------
(* Properties of the cash-flow projection.                                 *)

\* The sum of seq[lo..hi], the range halved.
RECURSIVE SumRange(_, _, _)
SumRange(seq, lo, hi) ==
    IF lo > hi THEN 0
    ELSE IF lo = hi THEN seq[lo]
    ELSE LET mid == (lo + hi) \div 2
         IN  SumRange(seq, lo, mid) + SumRange(seq, mid + 1, hi)

Sum(seq) == SumRange(seq, 1, Len(seq))

Nets(entries) == [i \in 1..Len(entries) |-> entries[i].net_cash_flow]

Revenues(entries) == [i \in 1..Len(entries) |-> entries[i].total_revenues]

Expenses(entries) == [i \in 1..Len(entries) |-> entries[i].total_expenses]

Aggregated(period) ==
    CASE period = "weekly"    -> response.weekly
      [] period = "monthly"   -> response.monthly
      [] period = "quarterly" -> response.quarterly
      [] period = "annual"    -> response.annual

\* C2: for every period, the net cash flow, the revenues and the expenses
\* summed over the periods returned by aggregate_cash_flow equal those summed
\* over the daily entries it was given: no entry is dropped or counted twice.
C2_AggregationConserves ==
    pc = "done" =>
        \A period \in Periods :
            /\ Sum(Nets(Aggregated(period))) = Sum(Nets(response.daily))
            /\ Sum(Revenues(Aggregated(period)))
                    = Sum(Revenues(response.daily))
            /\ Sum(Expenses(Aggregated(period)))
                    = Sum(Expenses(response.daily))

\* C2 witness: a response whose months and weeks split a non-zero net cash
\* flow over several periods.
C2_Witness ==
    /\ pc = "done"
    /\ Len(response.monthly) >= 3
    /\ Len(response.weekly) >= 3
    /\ \E i, j \in 1..Len(response.monthly) :
            /\ i # j
            /\ response.monthly[i].net_cash_flow # 0
            /\ response.monthly[j].net_cash_flow # 0
    /\ response.monthly[Len(response.monthly)].net_cash_flow # 0

\* The last day of a transaction's window, where it has one: its end_date,
\* or the day of a one-time transaction that has none.
HasLastDay(t) == t.end_date # None \/ t.type = "one-time"

LastDay(t) == IF t.end_date # None THEN t.end_date ELSE t.start_date

FullyPrecedes(t, horizon_start) ==
    HasLastDay(t) /\ LastDay(t) < horizon_start

FullyFollows(t, horizon_end) == t.start_date > horizon_end

\* C5: apply_transaction leaves the caller's array as it was for every
\* transaction whose window fully precedes or fully follows the horizon.
C5_OutsideHorizonUnchanged ==
    (lastCall.called
        /\ (FullyPrecedes(lastCall.transaction, data.start_date)
            \/ FullyFollows(lastCall.transaction, data.end_date)))
    => lastCall.after = lastCall.before

\* The dates start_date, step(start_date), step(step(start_date)), ... that
\* are <= end_date: how many there are.
RECURSIVE OccurrenceCount(_, _, _)
OccurrenceCount(date, end_date, frequency) ==
    IF date > end_date THEN 0
    ELSE 1 + OccurrenceCount(get_next_date(date, frequency), end_date,
                             frequency)

WindowIsHorizon(t) ==
    t.start_date = data.start_date /\ t.end_date = data.end_date

\* C6: for a transaction whose window is exactly the horizon, the call adds
\* multiplier * amount * N to the sum of the array: N = 1 for a one-time
\* transaction, and for a repeating one the number of dates stepped from
\* start_date that are <= end_date.
C6_WindowEqualsHorizonTotal ==
    (lastCall.called /\ WindowIsHorizon(lastCall.transaction)
        /\ (lastCall.transaction.type = "repeating"
                => SupportedFrequency(lastCall.transaction.frequency)))
    => LET t == lastCall.transaction
           N == IF t.type = "one-time" THEN 1
                ELSE OccurrenceCount(t.start_date, t.end_date, t.frequency)
       IN  /\ ~lastCall.raised
           /\ Sum(lastCall.after) - Sum(lastCall.before)
                = lastCall.multiplier * t.amount * N

\* C6 witness: a repeating transaction over exactly the horizon, applied to
\* an all-zero array, with more than two occurrences.
C6_Witness ==
    /\ lastCall.called
    /\ WindowIsHorizon(lastCall.transaction)
    /\ lastCall.transaction.type = "repeating"
    /\ SupportedFrequency(lastCall.transaction.frequency)
    /\ lastCall.before = Zeros(total_days(data))
    /\ OccurrenceCount(lastCall.transaction.start_date,
                       lastCall.transaction.end_date,
                       lastCall.transaction.frequency) >= 3
    /\ Sum(lastCall.after) # 0

InHorizon(date) == data.start_date <= date /\ date <= data.end_date

\* total_expenses of the aggregates of one period kind hold amount in the
\* one aggregate whose [start_date, end_date] contains date, 0 in the others.
OnlyInPeriodOf(aggregates, date, amount) ==
    /\ Cardinality({i \in 1..Len(aggregates) :
                      aggregates[i].start_date <= date
                      /\ date <= aggregates[i].end_date}) = 1
    /\ \A i \in 1..Len(aggregates) :
          aggregates[i].total_expenses
            = IF aggregates[i].start_date <= date
                 /\ date <= aggregates[i].end_date
              THEN amount ELSE 0

\* C7: a one-time expense (of whole hundredths, the only expense of the
\* request) dated inside the horizon shows in the daily output on that date
\* with its full amount and on no other day, and in exactly the monthly,
\* quarterly and annual aggregate that contains the date.
C7_OneTimeExpenseOnce ==
    (pc = "done" /\ Len(data.expenses) = 1
        /\ data.expenses[1].type = "one-time"
        /\ data.expenses[1].amount % 10 = 0
        /\ InHorizon(data.expenses[1].start_date))
    => LET e == data.expenses[1]
       IN  /\ \A i \in 1..Len(response.daily) :
                response.daily[i].total_expenses
                    = IF response.daily[i].date = e.start_date
                      THEN e.amount ELSE 0
           /\ OnlyInPeriodOf(response.monthly, e.start_date, e.amount)
           /\ OnlyInPeriodOf(response.quarterly, e.start_date, e.amount)
           /\ OnlyInPeriodOf(response.annual, e.start_date, e.amount)

UnsupportedRepeating(t) ==
    t.type = "repeating" /\ ~SupportedFrequency(t.frequency)

\* C10 as stated: expanding a repeating transaction whose frequency is
\* absent or unsupported fails, for every horizon.
C10_UnsupportedAlwaysFails ==
    (lastCall.called /\ UnsupportedRepeating(lastCall.transaction))
    => lastCall.raised

\* C10 as amended: expanding a repeating transaction whose frequency is
\* absent or unsupported fails exactly when its window clipped to the
\* horizon is not empty; when it is empty the call returns without an error
\* and leaves the array as it was.
C10_UnsupportedFailsWhenOverlapping ==
    (lastCall.called /\ UnsupportedRepeating(lastCall.transaction))
    => LET t == lastCall.transaction
           overlaps == effective_start(t, data.start_date)
                            <= effective_end(t, data.end_date)
       IN  /\ lastCall.raised <=> overlaps
           /\ ~overlaps => lastCall.after = lastCall.before
           /\ lastCall.raised => pc = "error"

\* C10 witness: a repeating transaction without a frequency, overlapping
\* the horizon, whose expansion raised.
C10_Witness ==
    /\ lastCall.called
    /\ UnsupportedRepeating(lastCall.transaction)
    /\ effective_start(lastCall.transaction, data.start_date)
            <= effective_end(lastCall.transaction, data.end_date)
    /\ lastCall.raised
    /\ pc = "error"


\* C12: the daily output of a projection holds one entry for each calendar
\* day of [start_date, end_date], in ascending order without gap or
\* duplicate: (end_date - start_date) in days + 1 entries.
C12_OneEntryPerDay ==
    pc = "done" =>
        /\ data.start_date <= data.end_date
        /\ Len(response.daily) = (data.end_date - data.start_date) + 1
        /\ response.daily[1].date = data.start_date
        /\ response.daily[Len(response.daily)].date = data.end_date
        /\ \A i \in 1..(Len(response.daily) - 1) :
              response.daily[i + 1].date = response.daily[i].date + 1

\* The projection of the leap year 2024: 366 entries, the 60th of them
\* February 29.
C12_Witness ==
    /\ pc = "done"
    /\ data.start_date = Ymd2Ord(2024, 1, 1)
    /\ data.end_date = Ymd2Ord(2024, 12, 31)
    /\ Len(response.daily) = 366
    /\ MonthOf(response.daily[60].date) = 2
    /\ DayOf(response.daily[60].date) = 29

HorizonDays == data.start_date .. data.end_date

\* the calendar months, quarters and years that the horizon touches
MonthsTouched == {<<YearOf(d), MonthOf(d)>> : d \in HorizonDays}

QuartersTouched ==
    {<<YearOf(d), CASE MonthOf(d) \in 1..3 -> 1 [] MonthOf(d) \in 4..6 -> 2
                    [] MonthOf(d) \in 7..9 -> 3 [] OTHER -> 4>> :
        d \in HorizonDays}

YearsTouched == {YearOf(d) : d \in HorizonDays}

\* C13: aggregate_cash_flow returns one period per calendar month, per
\* calendar quarter and per calendar year that the daily sequence touches.
C13_OnePeriodPerCalendarUnit ==
    pc = "done" =>
        /\ Len(response.monthly) = Cardinality(MonthsTouched)
        /\ Len(response.quarterly) = Cardinality(QuartersTouched)
        /\ Len(response.annual) = Cardinality(YearsTouched)

\* A full calendar year gives 12 monthly, 4 quarterly and 1 annual period.
C13_Witness ==
    /\ pc = "done"
    /\ data.start_date = Ymd2Ord(2024, 1, 1)
    /\ data.end_date = Ymd2Ord(2024, 12, 31)
    /\ Len(response.monthly) = 12
    /\ Len(response.quarterly) = 4
    /\ Len(response.annual) = 1

\* C14: a request whose end_date is before its start_date fails with no
\* daily entries and no aggregates; a request with start_date = end_date is
\* accepted and yields a projection of a single day.
C14_InvalidHorizonRejected ==
    /\ data.end_date < data.start_date =>
          /\ pc \in {"start", "error"}
          /\ response = NoResponse
          /\ revenues_daily = <<>> /\ expenses_daily = <<>>
          /\ ~lastCall.called
    /\ (data.end_date = data.start_date /\ pc = "error") =>
          (lastCall.called /\ lastCall.raised)
    /\ (data.end_date = data.start_date /\ pc = "done") =>
          /\ Len(response.daily) = 1
          /\ response.daily[1].date = data.start_date
          /\ \A period \in Periods : Len(Aggregated(period)) = 1

\* A request with transactions whose end_date is before its start_date has
\* failed.
C14_Witness ==
    /\ pc = "error"
    /\ data.end_date < data.start_date
    /\ Len(AllTransactions(data)) > 0
    /\ response = NoResponse

\* The dates on which the last call of apply_transaction has changed the
\* array.
OccurrenceDates ==
    {data.start_date + (i - 1) : i \in
        {j \in 1..Len(lastCall.after) : lastCall.after[j] # lastCall.before[j]}}

FirstOccurrence == CHOOSE a \in OccurrenceDates : \A b \in OccurrenceDates : a <= b

\* b is the occurrence that follows the occurrence a
NextOccurrence(a, b) ==
    /\ a \in OccurrenceDates /\ b \in OccurrenceDates /\ a < b
    /\ \A c \in OccurrenceDates : ~(a < c /\ c < b)

MonthsPerStep(frequency) ==
    CASE frequency = "monthly" -> 1
      [] frequency = "quarterly" -> 3
      [] frequency = "annual" -> 12

MonthNumber(date) == YearOf(date) * 12 + MonthOf(date)

CalendarStepped(t) ==
    /\ lastCall.called /\ ~lastCall.raised
    /\ t.type = "repeating"
    /\ t.frequency \in {"monthly", "quarterly", "annual"}
    /\ OccurrenceDates # {}

\* C15 as stated: every occurrence of a monthly, quarterly or annual series
\* falls on the day of month d of the first occurrence whenever its month
\* has a day d, and on the month's last day otherwise.
C15_DayOfMonthOfFirstKept ==
    CalendarStepped(lastCall.transaction) =>
        \A b \in OccurrenceDates :
            DayOf(b) = Min(DayOf(FirstOccurrence),
                           DaysInMonth(YearOf(b), MonthOf(b)))

\* C15 (amended): every later occurrence lies 1, 3 or 12 calendar months
\* after the occurrence before it, on that occurrence's day of month when
\* its own month has such a day and on its month's last day otherwise.
C15_DayOfMonthOfPreviousKept ==
    CalendarStepped(lastCall.transaction) =>
        \A a, b \in OccurrenceDates :
            NextOccurrence(a, b) =>
                /\ MonthNumber(b) = MonthNumber(a)
                       + MonthsPerStep(lastCall.transaction.frequency)
                /\ DayOf(b) = Min(DayOf(a), DaysInMonth(YearOf(b), MonthOf(b)))

\* A monthly series from January 31 with occurrences on February 29 and
\* March 29.
C15_Witness ==
    /\ CalendarStepped(lastCall.transaction)
    /\ lastCall.transaction.frequency = "monthly"
    /\ FirstOccurrence = Ymd2Ord(2024, 1, 31)
    /\ Ymd2Ord(2024, 2, 29) \in OccurrenceDates
    /\ Ymd2Ord(2024, 3, 29) \in OccurrenceDates
    /\ Ymd2Ord(2024, 3, 31) \notin OccurrenceDates

\* the period window of a period that starts on period_start: the fixed
\* seven days from it, or the calendar month, quarter or year it lies in
InWindow(date, period, period_start) ==
    CASE period = "weekly"    -> date - period_start \in 0..6
      [] period = "monthly"   -> <<YearOf(date), MonthOf(date)>>
                                    = <<YearOf(period_start), MonthOf(period_start)>>
      [] period = "quarterly" -> <<YearOf(date), (MonthOf(date) + 2) \div 3>>
                                    = <<YearOf(period_start),
                                        (MonthOf(period_start) + 2) \div 3>>
      [] period = "annual"    -> YearOf(date) = YearOf(period_start)

\* the index in response.daily of the entry of a date
DailyIndex(date) == date - data.start_date + 1

\* C17: the periods returned by aggregate_cash_flow for the gap-free
\* ascending daily sequence partition it into consecutive maximal runs: the
\* first starts at the first date, each has start_date <= end_date and holds
\* the entries from start_date to end_date, all in the window of its start,
\* each next period starts the day after the one before ends (on the first
\* date outside that one's window), and the last ends at the last date; an
\* empty input yields an empty result.
C17_PeriodsPartitionDays ==
    /\ \A period \in Periods : aggregate_cash_flow(<<>>, period) = <<>>
    /\ pc = "done" =>
        \A period \in Periods :
            LET a == Aggregated(period)
                n == Len(a)
            IN  /\ n >= 1
                /\ a[1].start_date = response.daily[1].date
                /\ a[n].end_date = response.daily[Len(response.daily)].date
                /\ \A j \in 1..n :
                      /\ a[j].start_date <= a[j].end_date
                      /\ \A date \in a[j].start_date .. a[j].end_date :
                            InWindow(date, period, a[j].start_date)
                      /\ a[j].total_revenues =
                            Round2(SumRange(Revenues(response.daily),
                                            DailyIndex(a[j].start_date),
                                            DailyIndex(a[j].end_date)))
                      /\ a[j].total_expenses =
                            Round2(SumRange(Expenses(response.daily),
                                            DailyIndex(a[j].start_date),
                                            DailyIndex(a[j].end_date)))
                /\ \A j \in 1..(n - 1) :
                      /\ a[j + 1].start_date = a[j].end_date + 1
                      /\ ~InWindow(a[j + 1].start_date, period, a[j].start_date)

\* A response with revenues whose last month is a single day, whose first
\* week is seven days long and whose last week is shorter.
C17_Witness ==
    /\ pc = "done"
    /\ Len(response.monthly) >= 2
    /\ LET last == response.monthly[Len(response.monthly)]
       IN  last.start_date = last.end_date /\ last.total_revenues > 0
    /\ Len(response.weekly) >= 2
    /\ response.weekly[1].end_date = response.weekly[1].start_date + 6
    /\ LET last == response.weekly[Len(response.weekly)]
       IN  last.end_date < last.start_date + 6

\* the array a transaction leaves when it alone is applied to zeros
Alone(transaction, multiplier) ==
    apply_transaction(transaction, Zeros(total_days(data)), data.start_date,
                      data.end_date, multiplier).cash_flow

\* the arrays the first n transactions of the request leave alone, each
\* with its own multiplier
RECURSIVE AloneUpTo(_)
AloneUpTo(n) ==
    IF n = 0 THEN <<>>
    ELSE Append(AloneUpTo(n - 1),
                Alone(AllTransactions(data)[n],
                      Multiplier(AllTransactions(data)[n], data)))

\* the positions in data.revenues + data.expenses of the transactions
\* applied with a multiplier, i.e. to one of the two arrays
AppliedWith(multiplier) ==
    { j \in 1..Len(AllTransactions(data)) :
        Multiplier(AllTransactions(data)[j], data) = multiplier }

\* the orders in which the transactions of a set of positions can be applied
Orders(positions) ==
    { order \in [1..Cardinality(positions) -> positions] :
        \A a, b \in DOMAIN order : a # b => order[a] # order[b] }

\* the array after the transactions at order[from..] are applied in turn
RECURSIVE ApplyInOrder(_, _, _, _)
ApplyInOrder(order, from, cash_flow, multiplier) ==
    IF from > Len(order) THEN cash_flow
    ELSE ApplyInOrder(order, from + 1,
                      apply_transaction(AllTransactions(data)[order[from]],
                                        cash_flow, data.start_date,
                                        data.end_date, multiplier).cash_flow,
                      multiplier)

\* the sum over a set of positions of the values arrays hold at index i
RECURSIVE SumAt(_, _, _)
SumAt(arrays, positions, i) ==
    IF positions = {} THEN 0
    ELSE LET j == CHOOSE x \in positions : TRUE
         IN  arrays[j][i] + SumAt(arrays, positions \ {j}, i)

\* C20: applying several transactions to the same per-day array is additive
\* and order-independent: a call adds to every day's value what the
\* transaction contributes alone, and after all calls each day's value is
\* the sum of the contributions, in whatever order the transactions of the
\* array are applied.
C20_AdditiveAnyOrder ==
    /\ (pc = "applying" /\ lastCall.called) =>
          LET alone == Alone(lastCall.transaction, lastCall.multiplier)
          IN  \A i \in 1..Len(lastCall.before) :
                  lastCall.after[i] = lastCall.before[i] + alone[i]
    /\ pc = "done" =>
          \A multiplier \in {1, -1} :
              LET positions == AppliedWith(multiplier)
                  array     == IF multiplier = 1 THEN revenues_daily
                               ELSE expenses_daily
                  alone     == AloneUpTo(Len(AllTransactions(data)))
              IN  /\ \A i \in 1..Len(array) :
                         array[i] = SumAt(alone, positions, i)
                  /\ \A order \in Orders(positions) :
                         ApplyInOrder(order, 1, Zeros(total_days(data)),
                                      multiplier) = array

\* The last of two calls on one array added a repeating transaction on a
\* day that already held an amount, and on a day that held none.
C20_Witness ==
    /\ pc = "done"
    /\ lastCall.called
    /\ lastCall.transaction.type = "repeating"
    /\ Cardinality(AppliedWith(lastCall.multiplier)) >= 2
    /\ \E i \in 1..Len(lastCall.before) :
          lastCall.before[i] # 0 /\ lastCall.after[i] # lastCall.before[i]
    /\ \E i \in 1..Len(lastCall.before) :
          lastCall.before[i] = 0 /\ lastCall.after[i] # 0

\* the multiplier of the list a position of data.revenues + data.expenses
\* lies in: 1 in the revenues, -1 in the expenses
MultiplierOfList(j) == IF j <= Len(data.revenues) THEN 1 ELSE -1

\* the arrays the first n transactions of the request leave alone, each
\* with the multiplier of its list
RECURSIVE AloneByListUpTo(_)
AloneByListUpTo(n) ==
    IF n = 0 THEN <<>>
    ELSE Append(AloneByListUpTo(n - 1),
                Alone(AllTransactions(data)[n], MultiplierOfList(n)))

\* C21: every transaction of the expenses list contributes only to
\* total_expenses of the daily entries and every transaction of the revenues
\* list only to total_revenues, also when an expense is field for field
\* equal to a revenue: each day's totals are the sums over the lists.
C21_ListDecidesSide ==
    pc = "done" =>
        LET alone    == AloneByListUpTo(Len(AllTransactions(data)))
            revenues == 1..Len(data.revenues)
            expenses == (Len(data.revenues) + 1)..Len(AllTransactions(data))
        IN  \A i \in 1..Len(response.daily) :
                /\ response.daily[i].total_revenues
                        = Round2(SumAt(alone, revenues, i))
                /\ response.daily[i].total_expenses
                        = Round2(Abs(SumAt(alone, expenses, i)))

\* C22: a call for a one-time transaction whose start_date lies outside
\* the horizon, with or without an end_date, leaves every day of the array
\* as it was; one dated before horizon_start is not recorded on
\* horizon_start.
C22_OneTimeOutsideContributesNothing ==
    (lastCall.called
        /\ lastCall.transaction.type = "one-time"
        /\ ~InHorizon(lastCall.transaction.start_date))
    => \A i \in 1..Len(lastCall.before) :
            lastCall.after[i] = lastCall.before[i]

\* the dates date, step(date), step(step(date)), ... up to last, appended
\* to the dates found so far
RECURSIVE SteppedFrom(_, _, _, _)
SteppedFrom(date, last, frequency, found) ==
    IF date > last \/ Len(found) < 0 THEN found
    ELSE SteppedFrom(get_next_date(date, frequency), last, frequency,
                     Append(found, date))

\* the occurrence recorded last by the call, data.start_date if none
LastOccurrence ==
    IF OccurrenceDates = {} THEN data.start_date
    ELSE CHOOSE a \in OccurrenceDates : \A b \in OccurrenceDates : b <= a

\* the dates up to the last recorded occurrence that are reached from the
\* start_date of a transaction by its step
ReachedFromStart(t) ==
    LET found == SteppedFrom(t.start_date, LastOccurrence, t.frequency, <<>>)
    IN  {found[n] : n \in 1..Len(found)}

\* C23: every day on which a call records an occurrence of a repeating
\* transaction is reached from the transaction's own start_date by its
\* recurrence step, also when start_date precedes horizon_start.
C23_OccurrencesInPhaseWithStart ==
    (lastCall.called /\ ~lastCall.raised
        /\ lastCall.transaction.type = "repeating")
    => OccurrenceDates \subseteq ReachedFromStart(lastCall.transaction)

\* C24: when a call fails with the unsupported-frequency error, the
\* caller's array is as it was before the call: no occurrence was added
\* before the error was raised.
C24_FailedCallLeavesArray ==
    (lastCall.called /\ lastCall.raised) =>
        /\ lastCall.after = lastCall.before
        /\ IF lastCall.multiplier = 1
           THEN revenues_daily = lastCall.before
           ELSE expenses_daily = lastCall.before

-----------------------------------------------------------------------------
(* Numbers of the simulator.  The floats of calculations.py are modelled   *)
(* as exact rationals [n, d] in lowest terms with d > 0: the arithmetic is *)
(* that of the reals, float rounding error is not modelled.                *)

RECURSIVE GCD(_, _)
GCD(a, b) == IF b = 0 THEN a ELSE GCD(b, a % b)

Rat(n, d) == LET g == GCD(Abs(n), d) IN [n |-> n \div g, d |-> d \div g]

RInt(n) == [n |-> n, d |-> 1]

RZero == RInt(0)

ROne == RInt(1)

\* a + b
RAdd(a, b) ==
    LET g == GCD(a.d, b.d)
    IN  Rat(a.n * (b.d \div g) + b.n * (a.d \div g), (a.d \div g) * b.d)

\* a - b
RSub(a, b) == RAdd(a, [n |-> -b.n, d |-> b.d])

\* a * b
RMul(a, b) ==
    LET g1 == GCD(Abs(a.n), b.d)
        g2 == GCD(Abs(b.n), a.d)
    IN  Rat((a.n \div g1) * (b.n \div g2), (a.d \div g2) * (b.d \div g1))

\* a ** e for an integer e >= 0
RECURSIVE RPow(_, _)
RPow(a, e) == IF e = 0 THEN ROne ELSE RMul(a, RPow(a, e - 1))

RLt(a, b) == RSub(a, b).n < 0

RLeq(a, b) == RSub(a, b).n <= 0

RMax(a, b) == IF RLt(a, b) THEN b ELSE a

RAbs(a) == [n |-> Abs(a.n), d |-> a.d]

\* dict.get(key, default)
Get(dict, key, default) == IF key \in DOMAIN dict THEN dict[key] ELSE default

-----------------------------------------------------------------------------
(* utils/constraints.py                                                    *)

ASSET_CLASSES ==
    <<"stocks", "bonds", "commodities", "gold", "foreign_stocks",
      "international_bonds">>

NumAssets == Len(ASSET_CLASSES)

DEFAULT_MEAN_RETURNS ==
    <<Rat(90, 1000), Rat(66, 1000), Rat(55, 1000), Rat(50, 1000),
      Rat(94, 1000), Rat(65, 1000)>>

DEFAULT_VOLATILITY ==
    <<Rat(150, 1000), Rat(138, 1000), Rat(167, 1000), Rat(100, 1000),
      Rat(179, 1000), Rat(148, 1000)>>

\* in hundredths
DefaultCorrelationHundredths ==
    << <<100, 22, 12, 10, 85, 20>>,
       <<22, 100, 15, 5, 30, 80>>,
       <<12, 15, 100, 25, 20, 15>>,
       <<10, 5, 25, 100, 15, 10>>,
       <<85, 30, 20, 15, 100, 35>>,
       <<20, 80, 15, 10, 35, 100>> >>

DEFAULT_CORRELATION ==
    [i \in 1..6 |-> [j \in 1..6 |->
        Rat(DefaultCorrelationHundredths[i][j], 100)]]

DEFAULT_VALUES ==
    [default_expenses |-> RInt(50000), default_income |-> RZero]

-----------------------------------------------------------------------------
(* utils/calculations.py: the cashflow schedule.                           *)

\* sorted(custom_values.keys()): the keys just below and just above year
KeyBelow(custom_values, y) ==
    CHOOSE lo \in DOMAIN custom_values :
        lo < y /\ \A z \in DOMAIN custom_values : z < y => z <= lo

KeyAbove(custom_values, y) ==
    CHOOSE hi \in DOMAIN custom_values :
        hi > y /\ \A z \in DOMAIN custom_values : z > y => z >= hi

\* interp1d(years, values, kind='linear')(y), y strictly between two keys
Interpolate(custom_values, y) ==
    LET lo == KeyBelow(custom_values, y)
        hi == KeyAbove(custom_values, y)
        slope == RMul(RSub(custom_values[hi], custom_values[lo]),
                      Rat(y - lo, hi - lo))
    IN  RAdd(custom_values[lo], slope)

\* base * (1 + growth_rate) ** year
Compound(base, growth_rate, y) ==
    RMul(base, RPow(RAdd(ROne, growth_rate), y))

\* a year after the latest custom year given the default value
convert_to_future_nominal_value_NoHold(y, custom_values, default_value, growth_rate, use_interpolation) ==
    LET years == DOMAIN custom_values
    IN  IF years = {} THEN Compound(default_value, growth_rate, y)
        ELSE IF y \in years THEN Compound(custom_values[y], growth_rate, y)
        ELSE IF ~use_interpolation
             THEN Compound(default_value, growth_rate, y)
        ELSE IF \A z \in years : y < z
             THEN Compound(default_value, growth_rate, y)
        ELSE IF \A z \in years : y > z
             THEN Compound(default_value, growth_rate, y)
        ELSE Compound(Interpolate(custom_values, y), growth_rate, y)

convert_to_future_nominal_value(y, custom_values, default_value, growth_rate, use_interpolation) ==
    LET years == DOMAIN custom_values
    IN  IF years = {} THEN Compound(default_value, growth_rate, y)
        ELSE IF y \in years THEN Compound(custom_values[y], growth_rate, y)
        ELSE IF ~use_interpolation
             THEN Compound(default_value, growth_rate, y)
        ELSE IF \A z \in years : y < z
             THEN Compound(default_value, growth_rate, y)
        ELSE IF \A z \in years : y > z
             THEN Compound(custom_values[CHOOSE z \in years :
                                            \A w \in years : w <= z],
                           growth_rate, y)
        ELSE Compound(Interpolate(custom_values, y), growth_rate, y)

base_income(y, ud) ==
    convert_to_future_nominal_value(
        y, Get(ud, "custom_income", <<>>),
        Get(ud, "default_income", DEFAULT_VALUES.default_income),
        Get(ud, "income_growth_rate", Rat(3, 100)),
        Get(ud, "use_income_interpolation", FALSE))

\* social security with the income growth rate in place of inflation
InflatedSSIncomeGrowth(y, ud) ==
    Compound(ud.social_security_amount,
             Get(ud, "income_growth_rate", Rat(3, 100)), y)

inflated_ss(y, ud) ==
    Compound(ud.social_security_amount, ud.inflation_rate, y)

get_total_income(y, ud) ==
    LET current_age == ud.age + y
    IN  IF current_age >= ud.social_security_age
        THEN RAdd(base_income(y, ud), inflated_ss(y, ud))
        ELSE base_income(y, ud)

expenses(y, ud) ==
    convert_to_future_nominal_value(
        y, Get(ud, "custom_expenses", <<>>),
        Get(ud, "default_expenses", DEFAULT_VALUES.default_expenses),
        Get(ud, "expense_growth_rate", Rat(2, 100)),
        Get(ud, "use_expense_interpolation", FALSE))

calculate_net_cashflow(y, ud) == RSub(expenses(y, ud), get_total_income(y, ud))

-----------------------------------------------------------------------------
(* utils/calculations.py: calculate_portfolio_return.  A key that is       *)
(* absent from user_data stands for None as well.                          *)

\* [user_data["asset_allocation"][asset] for asset in ASSET_CLASSES] needs
\* every asset class as a key (KeyError otherwise).
HasAllocation(ud) ==
    /\ "asset_allocation" \in DOMAIN ud
    /\ \A i \in 1..NumAssets : ASSET_CLASSES[i] \in DOMAIN ud.asset_allocation

asset_allocation(ud) ==
    [i \in 1..NumAssets |-> ud.asset_allocation[ASSET_CLASSES[i]]]

\* the size test with the test of the rows left out
CorrelationRowCountOnly(correlation_matrix) ==
    Len(correlation_matrix) = NumAssets

\* not (len(correlation_matrix) != n or any(len(row) != n for row in ...))
CorrelationShapeOk(correlation_matrix) ==
    /\ Len(correlation_matrix) = NumAssets
    /\ \A i \in 1..Len(correlation_matrix) :
            Len(correlation_matrix[i]) = NumAssets

CorrelationRaises(ud) ==
    /\ "correlation_matrix" \in DOMAIN ud
    /\ ~CorrelationShapeOk(ud.correlation_matrix)

correlation_matrix(ud) == Get(ud, "correlation_matrix", DEFAULT_CORRELATION)

mean_returns(ud) == Get(ud, "mean_returns", DEFAULT_MEAN_RETURNS)

volatilities(ud) == Get(ud, "volatility", DEFAULT_VOLATILITY)

\* np.outer(volatilities, volatilities) is m x m; its product with the
\* n x n correlation matrix broadcasts when m = n or m = 1 and raises
\* otherwise.
CovarianceRaises(ud) == Len(volatilities(ud)) \notin {1, NumAssets}

\* the diagonal of the covariance matrix
Variance(ud, i) ==
    LET v == volatilities(ud)
        vi == IF Len(v) = 1 THEN v[1] ELSE v[i]
    IN  RMul(RMul(vi, vi), correlation_matrix(ud)[i][i])

\* np.random.multivariate_normal(mean, cov) raises, before it draws, when
\* mean has not one entry per row of cov.
SamplingRaises(ud) == Len(mean_returns(ud)) # NumAssets

PortfolioReturnRaises(ud) ==
    \/ ~HasAllocation(ud)
    \/ CorrelationRaises(ud)
    \/ CovarianceRaises(ud)
    \/ SamplingRaises(ud)

\* Deviations from the mean that a sampled return of non-zero variance may
\* show (a selection of the support of the normal distribution).
Deviations == {Rat(-1, 2), Rat(1, 5)}

\* The outcomes of np.random.multivariate_normal: an asset of zero variance
\* returns its mean exactly, any other asset its mean plus a deviation.
Samples(ud) ==
    LET volatile == {i \in 1..NumAssets : Variance(ud, i) # RZero}
    IN  { [i \in 1..NumAssets |->
              IF i \in volatile THEN RAdd(mean_returns(ud)[i], dev[i])
              ELSE mean_returns(ud)[i]] : dev \in [volatile -> Deviations] }

\* np.dot(a, b) over the first n entries
RECURSIVE Dot(_, _, _)
Dot(a, b, n) ==
    IF n = 0 THEN RZero ELSE RAdd(Dot(a, b, n - 1), RMul(a[n], b[n]))

portfolio_return(ud, random_returns) ==
    Dot(asset_allocation(ud), random_returns, NumAssets)

\* the return added to the value in place of compounding it
GrowAdditive(value, return) == RAdd(value, return)

\* portfolio_value * (1 + portfolio_return)
Grow(value, return) == RMul(value, RAdd(ROne, return))

\* The value returned for one sample, when nothing raises.
calculate_portfolio_return(value, ud, random_returns) ==
    Grow(value, portfolio_return(ud, random_returns))

-----------------------------------------------------------------------------
(* utils/calculations.py: simulate_portfolio_growth, one action for the    *)
(* allocation of the matrix, one per iteration of the inner loop, one for  *)
(* the return.                                                             *)

num_simulations(ud) == Get(ud, "num_simulations", 1000)

\* np.zeros((num_simulations, years))
ZeroPaths(ud) ==
    [i \in 1..num_simulations(ud) |-> [t \in 1..ud.planning_horizon |-> RZero]]

\* the net cashflow added in place of subtracted
ApplyCashflowAdded(value, net) == RAdd(value, net)

\* portfolio_value - net_cashflow
ApplyCashflow(value, net) == RSub(value, net)

\* the result of the subtraction left as it is
NoFloor(value) == value

\* max(value, 0)
FloorAtZero(value) == RMax(value, RZero)

\* years, starting_portfolio, num_simulations are read and the matrix is
\* allocated.
SimBegin ==
    /\ sim_pc = "start"
    /\ sim_pc' = "running"
    /\ portfolio_paths' = ZeroPaths(user_data)
    /\ sampled' = ZeroPaths(user_data)
    /\ portfolio_value' = user_data.starting_portfolio
    /\ UNCHANGED <<user_data, sim, year, net_cashflow, draws, risk,
                   cashFlowVars, validationVars>>

\* One iteration of the loop over year, for one outcome of the sampling.
\* An exception of calculate_portfolio_return ends the simulation.
SimStep ==
    /\ sim_pc = "running"
    /\ sim < num_simulations(user_data)
    /\ year < user_data.planning_horizon
    /\ IF PortfolioReturnRaises(user_data)
       THEN /\ sim_pc' = "error"
            /\ UNCHANGED <<sim, year, portfolio_value, portfolio_paths,
                           net_cashflow, draws, sampled>>
       ELSE \E random_returns \in Samples(user_data) :
              LET grown == calculate_portfolio_return(
                               portfolio_value, user_data, random_returns)
                  net   == calculate_net_cashflow(year, user_data)
                  value == FloorAtZero(ApplyCashflow(grown, net))
                  last  == year + 1 = user_data.planning_horizon
              IN  /\ portfolio_paths' =
                         [portfolio_paths EXCEPT ![sim + 1][year + 1] = value]
                  /\ sampled' =
                         [sampled EXCEPT ![sim + 1][year + 1] =
                              portfolio_return(user_data, random_returns)]
                  /\ net_cashflow' = net
                  /\ draws' = draws + 1
                  /\ year' = IF last THEN 0 ELSE year + 1
                  /\ sim' = IF last THEN sim + 1 ELSE sim
                  /\ portfolio_value' =
                         IF last /\ sim + 1 < num_simulations(user_data)
                         THEN user_data.starting_portfolio ELSE value
                  /\ sim_pc' = "running"
    /\ UNCHANGED <<user_data, risk, cashFlowVars, validationVars>>

\* return portfolio_paths
SimReturn ==
    /\ sim_pc = "running"
    /\ ~(sim < num_simulations(user_data) /\ year < user_data.planning_horizon)
    /\ sim_pc' = "done"
    /\ UNCHANGED <<user_data, sim, year, portfolio_value, portfolio_paths,
                   net_cashflow, draws, risk, sampled, cashFlowVars,
                   validationVars>>

\* A call of calculate_portfolio_return(portfolio_value, user_data) on its
\* own, as the tests make it.
CallPortfolioReturn ==
    /\ sim_pc = "calling"
    /\ IF PortfolioReturnRaises(user_data)
       THEN /\ sim_pc' = "error"
            /\ UNCHANGED <<portfolio_value, draws>>
       ELSE \E random_returns \in Samples(user_data) :
              /\ portfolio_value' = calculate_portfolio_return(
                                        portfolio_value, user_data, random_returns)
              /\ draws' = draws + 1
              /\ sim_pc' = "returned"
    /\ UNCHANGED <<user_data, sim, year, portfolio_paths, net_cashflow, risk,
                   sampled, cashFlowVars, validationVars>>

\* the test portfolio_paths < 0 in place of <= 0
DepletionFlagStrict(row) == \E t \in 1..Len(row) : RLt(row[t], RZero)

\* np.any(portfolio_paths <= 0, axis=1) for one row
DepletionFlag(row) == \E t \in 1..Len(row) : RLeq(row[t], RZero)

\* np.sum(depletion_flags) over the first n rows
RECURSIVE DepletionCount(_, _)
DepletionCount(paths, n) ==
    IF n = 0 THEN 0
    ELSE DepletionCount(paths, n - 1) + (IF DepletionFlag(paths[n]) THEN 1 ELSE 0)

calculate_depletion_risk(paths) ==
    LET total_paths == Len(paths)
    IN  IF total_paths = 0 THEN RZero
        ELSE Rat(DepletionCount(paths, total_paths), total_paths)

\* main.py simulate: risk = calculate_depletion_risk(portfolio_paths) on the
\* matrix returned.
CalculateRisk ==
    /\ sim_pc = "done"
    /\ risk' = calculate_depletion_risk(portfolio_paths)
    /\ sim_pc' = "reported"
    /\ UNCHANGED <<user_data, sim, year, portfolio_value, portfolio_paths,
                   net_cashflow, draws, sampled, cashFlowVars, validationVars>>

-----------------------------------------------------------------------------
(* Inputs of the simulator specification.                                  *)

\* Longest planning horizon and largest number of paths.
MaxYears == 3

MaxSimulations == 2

AssetNames == {ASSET_CLASSES[i] : i \in 1..NumAssets}

\* The allocation dictionary with weights[i] for ASSET_CLASSES[i].
AllocationOf(weights) ==
    [a \in AssetNames |->
        weights[CHOOSE i \in 1..NumAssets : ASSET_CLASSES[i] = a]]

PerAsset(x) == [i \in 1..NumAssets |-> x]

AllStocks ==
    AllocationOf(<<ROne, RZero, RZero, RZero, RZero, RZero>>)

HalfStocksHalfBonds ==
    AllocationOf(<<Rat(1, 2), Rat(1, 2), RZero, RZero, RZero, RZero>>)

EqualWeights == AllocationOf(PerAsset(Rat(1, NumAssets)))

ZeroVolatility == PerAsset(RZero)

OnesMatrix == [i \in 1..NumAssets |-> PerAsset(ROne)]

IdentityMatrix ==
    [i \in 1..NumAssets |->
        [j \in 1..NumAssets |-> IF i = j THEN ROne ELSE RZero]]

TwoByTwo == << <<ROne, Rat(1, 5)>>, <<Rat(1, 5), ROne>> >>

\* six rows, the third one entry short
ShortRow ==
    [i \in 1..NumAssets |->
        IF i = 3 THEN [j \in 1..(NumAssets - 1) |-> ROne] ELSE PerAsset(ROne)]

FiveRows == [i \in 1..(NumAssets - 1) |-> PerAsset(ROne)]

\* The dictionary of test_social_security_transition, in small amounts.
BaseUserData ==
    [asset_allocation |-> AllStocks,
     mean_returns |-> PerAsset(RZero),
     volatility |-> ZeroVolatility,
     correlation_matrix |-> OnesMatrix,
     starting_portfolio |-> RInt(100),
     planning_horizon |-> 1,
     num_simulations |-> 1,
     age |-> 65,
     default_expenses |-> RInt(50),
     default_income |-> RZero,
     social_security_age |-> 67,
     social_security_amount |-> RInt(30),
     inflation_rate |-> RZero,
     expense_growth_rate |-> RZero,
     income_growth_rate |-> RZero]

Rates == {RZero, Rat(1, 10)}

CustomValues ==
    { <<>>, 1 :> RInt(300), (0 :> RInt(10)) @@ (2 :> RInt(30)),
      (0 :> RInt(10)) @@ (3 :> RInt(40)) }

\* custom_income with use_income_interpolation
CustomIncomes ==
    { <<(<<>>), FALSE>>, <<1 :> RInt(40), FALSE>>, <<1 :> RInt(40), TRUE>> }

\* Dictionaries that vary the cashflow schedule, one deterministic path.
CashflowInputs ==
    { [planning_horizon |-> h, social_security_age |-> ssa,
       social_security_amount |-> RInt(ss), inflation_rate |-> infl,
       income_growth_rate |-> ig, expense_growth_rate |-> eg,
       default_income |-> RInt(inc), custom_expenses |-> ce,
       custom_income |-> ci[1], use_expense_interpolation |-> interp,
       use_income_interpolation |-> ci[2]]
      @@ BaseUserData :
        h \in 1..MaxYears, ssa \in {64, 66, 67, 70}, ss \in {0, 30},
        infl \in Rates, ig \in Rates, eg \in Rates, inc \in {0, 80},
        ce \in CustomValues, ci \in CustomIncomes, interp \in BOOLEAN }

MeanChoices ==
    { PerAsset(RZero),
      <<Rat(1, 20), Rat(1, 20), RZero, RZero, RZero, RZero>>,
      <<Rat(1, 10), Rat(-1, 10), RZero, RZero, RZero, RZero>> }

VolatilityChoices ==
    { ZeroVolatility,
      <<Rat(1, 10), RZero, RZero, RZero, RZero, RZero>>,
      <<Rat(1, 10), Rat(1, 5), RZero, RZero, RZero, RZero>> }

\* A deterministic dictionary runs no path (a matrix of zero rows) up to
\* MaxSimulations, one with sampled returns as many over a single year and
\* one path over a longer horizon.
SimulationCounts(volatility, horizon) ==
    IF volatility = ZeroVolatility THEN 0..MaxSimulations
    ELSE IF horizon = 1 THEN 1..MaxSimulations
    ELSE {1}

\* The matrices that go with a volatility: the all-ones matrix of the tests
\* is singular, so it is paired with zero volatility only.
CorrelationChoices(volatility) ==
    IF volatility = ZeroVolatility THEN {OnesMatrix, TwoByTwo}
    ELSE {IdentityMatrix, ShortRow}

\* Dictionaries that vary the returns and the size of the withdrawals.
ReturnInputs ==
    UNION { { [planning_horizon |-> vh[2], num_simulations |-> n,
               asset_allocation |-> alloc, mean_returns |-> mean,
               volatility |-> vh[1], correlation_matrix |-> corr,
               starting_portfolio |-> RInt(start),
               default_expenses |-> RInt(exp), default_income |-> RInt(inc)]
              @@ BaseUserData :
                n \in SimulationCounts(vh[1], vh[2]),
                alloc \in {AllStocks, HalfStocksHalfBonds},
                mean \in MeanChoices, corr \in CorrelationChoices(vh[1]),
                start \in {0, 100}, exp \in {0, 50, 200}, inc \in {0, 80} } :
            vh \in VolatilityChoices \X (1..MaxYears) }

SimulationInputs == CashflowInputs \cup ReturnInputs

\* Dictionaries of a call of calculate_portfolio_return on its own: the
\* optional lists present or absent, of the right and of wrong sizes.
ShapeInputs ==
    { alloc @@ corr @@ vol @@ mean :
        alloc \in { [asset_allocation |-> EqualWeights],
                    [asset_allocation |-> [stocks |-> ROne]] },
        corr \in { <<>>, [correlation_matrix |-> IdentityMatrix],
                   [correlation_matrix |-> TwoByTwo],
                   [correlation_matrix |-> ShortRow],
                   [correlation_matrix |-> FiveRows],
                   [correlation_matrix |-> <<>>] },
        vol \in { <<>>, [volatility |-> ZeroVolatility],
                  [volatility |-> <<Rat(15, 100), Rat(6, 100)>>],
                  [volatility |-> <<Rat(1, 10)>>] },
        mean \in { <<>>, [mean_returns |-> <<Rat(1, 20), Rat(1, 20)>>] } }

InitSim ==
    /\ CashFlowIdle
    /\ ValidationIdle
    /\ \/ /\ user_data \in SimulationInputs
          /\ sim_pc = "start"
          /\ portfolio_value = RZero
       \/ /\ user_data \in ShapeInputs
          /\ sim_pc = "calling"
          /\ portfolio_value \in {RZero, RInt(1000000)}
    /\ sim = 0
    /\ year = 0
    /\ portfolio_paths = <<>>
    /\ net_cashflow = RZero
    /\ draws = 0
    /\ risk = RZero
    /\ sampled = <<>>

NextSim ==
    SimBegin \/ SimStep \/ SimReturn \/ CallPortfolioReturn \/ CalculateRisk

SpecSim == InitSim /\ [][NextSim]_vars

-----------------------------------------------------------------------------
(* Properties of the simulator.                                            *)

Horizon == user_data.planning_horizon

\* netCashflow of the year of column t of the matrix
NetOfColumn(t) == calculate_net_cashflow(t - 1, user_data)

\* C1 as stated: in the matrix returned by simulate_portfolio_growth an
\* entry of 0 is followed by entries of 0 only, whatever the returns and
\* the net cashflows of the later years.
C1_DepletionSticky ==
    sim_pc = "done" =>
        \A i \in 1..num_simulations(user_data) : \A t, u \in 1..Horizon :
            (t < u /\ portfolio_paths[i][t] = RZero)
                => portfolio_paths[i][u] = RZero

\* C1 (amended): in the matrix returned by simulate_portfolio_growth, if
\* entry [i, t] is 0 then entry [i, u] is 0 for every later year u such
\* that netCashflow is not negative in any of the years t+1 .. u, for any
\* sampled returns.
C1_DepletionStickyWhileWithdrawing ==
    sim_pc = "done" =>
        \A i \in 1..num_simulations(user_data) : \A t, u \in 1..Horizon :
            (/\ t < u
             /\ portfolio_paths[i][t] = RZero
             /\ \A w \in (t + 1)..u : RLeq(RZero, NetOfColumn(w)))
                => portfolio_paths[i][u] = RZero

\* A returned path with sampled returns that is depleted before its last
\* year and faces a withdrawal afterwards.
C1_Witness ==
    /\ sim_pc = "done"
    /\ Variance(user_data, 1) # RZero
    /\ RLt(RZero, user_data.starting_portfolio)
    /\ \E t \in 1..(Horizon - 1) :
          /\ portfolio_paths[1][t] = RZero
          /\ \A w \in (t + 1)..Horizon : RLt(RZero, NetOfColumn(w))

AllVolatilityZero(ud) ==
    \A i \in 1..Len(volatilities(ud)) : volatilities(ud)[i] = RZero

HeldAssets(ud) == {i \in 1..NumAssets : asset_allocation(ud)[i] # RZero}

SameMeanReturn(ud) ==
    \A i, j \in HeldAssets(ud) : mean_returns(ud)[i] = mean_returns(ud)[j]

\* the common mean return r of the assets held
CommonReturn(ud) == mean_returns(ud)[CHOOSE i \in HeldAssets(ud) : TRUE]

\* v_t = v_{t-1} * (1 + r) - netCashflow(t) floored at 0, v_{-1} the
\* starting portfolio
RECURSIVE Recurrence(_, _, _)
Recurrence(ud, r, t) ==
    IF t = -1 THEN ud.starting_portfolio
    ELSE LET v == RSub(RMul(Recurrence(ud, r, t - 1), RAdd(ROne, r)),
                       calculate_net_cashflow(t, ud))
         IN  IF RLt(v, RZero) THEN RZero ELSE v

\* C3: with zero volatility of every asset and one mean return r for all
\* assets of non-zero weight, every row of the returned matrix equals the
\* recurrence v_t = v_{t-1} * (1 + r) - netCashflow(t) floored at 0.
C3_DeterministicCompounding ==
    (/\ sim_pc = "done"
     /\ AllVolatilityZero(user_data)
     /\ SameMeanReturn(user_data))
        => \A i \in 1..num_simulations(user_data) : \A t \in 1..Horizon :
              portfolio_paths[i][t] =
                  Recurrence(user_data, CommonReturn(user_data), t - 1)

\* Two paths of two years or more, two assets held at a mean return of 5%,
\* a first value above 0 and a last one floored at 0.
C3_Witness ==
    /\ sim_pc = "done"
    /\ AllVolatilityZero(user_data)
    /\ SameMeanReturn(user_data)
    /\ num_simulations(user_data) >= 2
    /\ Horizon >= 2
    /\ Cardinality(HeldAssets(user_data)) = 2
    /\ CommonReturn(user_data) = Rat(1, 20)
    /\ RLt(RZero, portfolio_paths[2][1])
    /\ portfolio_paths[2][Horizon] = RZero

\* the year of the last iteration of the loop, once one has run
LastYear == IF year = 0 THEN Horizon - 1 ELSE year - 1

\* Expenses and scheduled income are the same in every year of the horizon.
ConstantSchedule(ud) ==
    \A y \in 0..(ud.planning_horizon - 1) :
        /\ expenses(y, ud) = expenses(0, ud)
        /\ base_income(y, ud) = base_income(0, ud)

Eligible(ud, y) == ud.age + y >= ud.social_security_age

\* C4: with expenses and scheduled income held constant, the net cashflow of
\* a year is expenses - income before age + year reaches
\* social_security_age and, from the first such year on, lower by exactly
\* social_security_amount * (1 + inflation_rate)^year.
C4_SocialSecurityTransition ==
    (/\ sim_pc \in {"running", "done"}
     /\ draws > 0
     /\ ConstantSchedule(user_data))
        => net_cashflow =
             RSub(RSub(expenses(0, user_data), base_income(0, user_data)),
                  IF Eligible(user_data, LastYear)
                  THEN RMul(user_data.social_security_amount,
                            RPow(RAdd(ROne, user_data.inflation_rate),
                                 LastYear))
                  ELSE RZero)

\* The net cashflow of the first year of eligibility, a later year than year
\* 0, with inflation and an income growth rate that differs from it.
C4_Witness ==
    /\ sim_pc \in {"running", "done"}
    /\ draws > 0
    /\ ConstantSchedule(user_data)
    /\ LastYear >= 1
    /\ Eligible(user_data, LastYear)
    /\ ~Eligible(user_data, LastYear - 1)
    /\ user_data.social_security_amount = RInt(30)
    /\ user_data.inflation_rate = Rat(1, 10)
    /\ user_data.income_growth_rate = RZero
    /\ RLt(net_cashflow, calculate_net_cashflow(LastYear - 1, user_data))

\* a correlation matrix is supplied and is not n x n
WrongCorrelationSize(ud) ==
    /\ "correlation_matrix" \in DOMAIN ud
    /\ \/ Len(ud.correlation_matrix) # 6
       \/ \E i \in 1..Len(ud.correlation_matrix) :
              Len(ud.correlation_matrix[i]) # 6

\* C8: with a correlation matrix that is not n x n, a call of
\* calculate_portfolio_return never returns a value and ends in an error
\* with no sample drawn (a simulation of zero paths makes no call).
C8_WrongCorrelationFailsUnsampled ==
    WrongCorrelationSize(user_data)
        => /\ draws = 0
           /\ sim_pc # "returned"
           /\ sim_pc \in {"done", "reported"}
                  => num_simulations(user_data) = 0
           /\ sim_pc = "running" => (sim = 0 /\ year = 0)

\* The call has failed on a matrix of six rows with one short row, all
\* other inputs being of the right size.
C8_Witness ==
    /\ sim_pc = "error"
    /\ WrongCorrelationSize(user_data)
    /\ Len(user_data.correlation_matrix) = 6
    /\ HasAllocation(user_data)
    /\ ~CovarianceRaises(user_data)
    /\ ~SamplingRaises(user_data)
    /\ draws = 0

\* the rows of the matrix with at least one entry <= 0
DepletedRows ==
    {i \in 1..Len(portfolio_paths) :
        \E t \in 1..Len(portfolio_paths[i]) :
            ~RLt(RZero, portfolio_paths[i][t])}

\* C11: calculate_depletion_risk returns (rows with an entry <= 0) / (rows),
\* a value in [0, 1], and 0 for a matrix of zero rows.
C11_DepletionRisk ==
    sim_pc = "reported" =>
        /\ RLeq(RZero, risk) /\ RLeq(risk, ROne)
        /\ Len(portfolio_paths) = 0 => risk = RZero
        /\ Len(portfolio_paths) > 0 =>
              risk.n * Len(portfolio_paths)
                  = Cardinality(DepletedRows) * risk.d

\* Of two sampled paths one holds a 0: the risk is 1/2.
C11_Witness ==
    /\ sim_pc = "reported"
    /\ Len(portfolio_paths) = 2
    /\ Cardinality(DepletedRows) = 1
    /\ risk = Rat(1, 2)

\* the value before the year of column t of row i
PreviousValue(i, t) ==
    IF t = 1 THEN user_data.starting_portfolio ELSE portfolio_paths[i][t - 1]

\* C16: every entry [i, t] of the returned matrix equals
\* max(prev * (1 + r) - netCashflow(t), 0) with prev the starting portfolio
\* or the entry of the year before and r the return sampled for that path
\* and year; every entry is >= 0.
C16_YearlyRecurrence ==
    sim_pc = "done" =>
        \A i \in 1..num_simulations(user_data) : \A t \in 1..Horizon :
            LET v == RSub(RMul(PreviousValue(i, t),
                               RAdd(ROne, sampled[i][t])),
                          NetOfColumn(t))
            IN  /\ portfolio_paths[i][t] = IF RLt(v, RZero) THEN RZero ELSE v
                /\ RLeq(RZero, portfolio_paths[i][t])

\* A path of two years or more whose sampled returns differ from year to
\* year and which ends above 0.
C16_Witness ==
    /\ sim_pc = "done"
    /\ num_simulations(user_data) >= 1
    /\ Horizon >= 2
    /\ sampled[1][1] # sampled[1][2]
    /\ RLt(RZero, portfolio_paths[1][1])
    /\ RLt(RZero, portfolio_paths[1][2])
    /\ calculate_net_cashflow(1, user_data) # RZero

\* the present value the schedule gives to year y
PresentValue(y, custom_values, default_value, use_interpolation) ==
    LET years    == DOMAIN custom_values
        earliest == CHOOSE z \in years : \A w \in years : z <= w
        latest   == CHOOSE z \in years : \A w \in years : w <= z
        lo       == CHOOSE z \in years :
                        z < y /\ ~\E w \in years : z < w /\ w < y
        hi       == CHOOSE z \in years :
                        y < z /\ ~\E w \in years : y < w /\ w < z
    IN  IF years = {} THEN default_value
        ELSE IF y \in years THEN custom_values[y]
        ELSE IF ~use_interpolation \/ y < earliest THEN default_value
        ELSE IF y > latest THEN custom_values[latest]
        ELSE RMul(RAdd(RMul(RInt(hi - y), custom_values[lo]),
                       RMul(RInt(y - lo), custom_values[hi])),
                  Rat(1, hi - lo))

\* P * (1 + growth_rate)^year
FutureNominal(y, custom_values, default_value, growth_rate, use_interpolation) ==
    RMul(PresentValue(y, custom_values, default_value, use_interpolation),
         RPow(RAdd(ROne, growth_rate), y))

\* the schedule parameters of user_data, with the defaults of absent keys
CustomExpenses == Get(user_data, "custom_expenses", <<>>)

DefaultExpenses == Get(user_data, "default_expenses", DEFAULT_VALUES.default_expenses)

ExpenseGrowthRate == Get(user_data, "expense_growth_rate", Rat(2, 100))

UseExpenseInterpolation == Get(user_data, "use_expense_interpolation", FALSE)

CustomIncome == Get(user_data, "custom_income", <<>>)

DefaultIncome == Get(user_data, "default_income", DEFAULT_VALUES.default_income)

IncomeGrowthRate == Get(user_data, "income_growth_rate", Rat(3, 100))

UseIncomeInterpolation == Get(user_data, "use_income_interpolation", FALSE)

\* the year of the call of calculate_net_cashflow made last
YearOfLastCall == IF year = 0 THEN Horizon - 1 ELSE year - 1

\* C18: convert_to_future_nominal_value returns P * (1 + growth_rate)^year
\* with P the default value when there are no custom values, the custom
\* value of a year that has one, else the default value when interpolation
\* is disabled or the year is before the earliest custom year, else the
\* latest custom value after the latest custom year, else the linear
\* interpolation between the bracketing custom years; checked for the
\* expenses and the base income of every year of the horizon and on the net
\* cashflow the loop computed last.
C18_FutureNominalValue ==
    sim_pc \in {"running", "done", "reported"} =>
        /\ \A y \in 0..(Horizon - 1) :
              /\ expenses(y, user_data) =
                    FutureNominal(y, CustomExpenses, DefaultExpenses,
                                  ExpenseGrowthRate, UseExpenseInterpolation)
              /\ base_income(y, user_data) =
                    FutureNominal(y, CustomIncome, DefaultIncome,
                                  IncomeGrowthRate, UseIncomeInterpolation)
        /\ draws > 0 =>
              net_cashflow =
                  RSub(FutureNominal(YearOfLastCall, CustomExpenses,
                                     DefaultExpenses, ExpenseGrowthRate,
                                     UseExpenseInterpolation),
                       get_total_income(YearOfLastCall, user_data))

\* A run over three years with interpolation enabled and a growth rate
\* above 0 whose custom expenses of years 0 and 3 bracket years 1 and 2.
C18_Witness ==
    /\ sim_pc = "done"
    /\ draws = 3
    /\ Horizon = 3
    /\ UseExpenseInterpolation
    /\ DOMAIN CustomExpenses = {0, 3}
    /\ ExpenseGrowthRate = Rat(1, 10)
    /\ expenses(1, user_data) = Rat(22, 1)
    /\ expenses(2, user_data) = Rat(363, 10)

\* user_data supplies a volatility vector of another length than the number
\* of asset classes
WrongVolatilityLength ==
    /\ "volatility" \in DOMAIN user_data
    /\ Len(user_data.volatility) # NumAssets

\* C19: calculate_portfolio_return fails with an error, before any random
\* sample is drawn, whenever a supplied volatility vector's length differs
\* from the number of asset classes, for every such length (length 1
\* included): no call returns a value and no sample is drawn.
C19_WrongVolatilityLengthFails ==
    WrongVolatilityLength =>
        /\ draws = 0
        /\ sim_pc # "returned"
        /\ sim_pc \in {"done", "reported"} => num_simulations(user_data) = 0
        /\ sim_pc = "running" => sim = 0 /\ year = 0

-----------------------------------------------------------------------------
(* utils/validation.py validate_asset_allocation and its caller, the field *)
(* validator of models/schemas.py.  allocation holds allocation.values().  *)

\* sum(allocation.values())
RECURSIVE SumValues(_, _)
SumValues(values, n) ==
    IF n = 0 THEN RZero ELSE RAdd(SumValues(values, n - 1), values[n])

total(values) == SumValues(values, Len(values))

\* the epsilon 0.0001
Epsilon == Rat(1, 10000)

\* the test without abs()
WithinEpsilonSigned(t) == RLt(RSub(t, ROne), Epsilon)

\* abs(total - 1.0) < 0.0001
WithinEpsilon(t) == RLt(RAbs(RSub(t, ROne)), Epsilon)

\* When total is at distance 0.0001 from 1.0 in the reals, the rounding of
\* the float sum and difference decides the comparison: either outcome.
RoundingDecides(t) == RAbs(RSub(t, ROne)) = Epsilon

\* The outcomes of validate_asset_allocation: it returns True or raises
\* ValidationError.
validate_asset_allocation(values) ==
    IF RoundingDecides(total(values)) THEN {"True", "ValidationError"}
    ELSE IF WithinEpsilon(total(values)) THEN {"True"}
    ELSE {"ValidationError"}

\* A call of validate_asset_allocation(allocation).
ValidateAllocation ==
    /\ validation = "validating"
    /\ validation' \in validate_asset_allocation(allocation)
    /\ UNCHANGED <<allocation, cashFlowVars, simVars>>

\* UserData.validate_allocation: the value is returned or the
\* ValidationError is turned into a ValueError.
ValidateField ==
    /\ validation = "constructing"
    /\ \E outcome \in validate_asset_allocation(allocation) :
          validation' = IF outcome = "True" THEN "valid" ELSE "ValueError"
    /\ UNCHANGED <<allocation, cashFlowVars, simVars>>

\* Most weights of one allocation.
MaxWeights == 2

WeightChoices ==
    { RZero, Rat(2, 5), Rat(1, 2), ROne, Rat(49996, 100000),
      Rat(4999, 10000), Rat(5002, 10000), Rat(50004, 100000) }

Allocations == UNION { [1..m -> WeightChoices] : m \in 0..MaxWeights }

InitValidate ==
    /\ CashFlowIdle
    /\ SimIdle
    /\ allocation \in Allocations
    /\ validation \in {"validating", "constructing"}

NextValidate == ValidateAllocation \/ ValidateField

SpecValidate == InitValidate /\ [][NextValidate]_vars

\* C9: validate_asset_allocation returns True when the weights sum to 1.0
\* within 0.0001 and raises a validation error when they are further from
\* 1.0 than that.
C9_AcceptsWithinTolerance ==
    validation \in {"True", "ValidationError"} =>
        LET distance == RAbs(RSub(total(allocation), ROne))
        IN  /\ RLt(distance, Rat(1, 10000)) => validation = "True"
            /\ RLt(Rat(1, 10000), distance) => validation = "ValidationError"
            /\ allocation = <<Rat(1, 2), Rat(1, 2)>> => validation = "True"
            /\ allocation = <<Rat(2, 5), Rat(1, 2)>>
                   => validation = "ValidationError"

\* Weights 0.49996 and 0.5 have been accepted: the sum is not 1.0 but
\* within the tolerance.
C9_Witness ==
    /\ validation = "True"
    /\ allocation = <<Rat(49996, 100000), Rat(1, 2)>>

=============================================================================
